---- MODULE Spec2Model ----
(***************************************************************************)
(* Certificate Maker (word.py): the identifier sanitizer, the per-row      *)
(* renderer generate_pdf, the batch loop process_certificates and the      *)
(* on_generate handler of CertificateFrame.                                *)
(*                                                                         *)
(* Text is a sequence of one-character strings.  A cell value is a record  *)
(* [t, v]: None, an integer or a text.  A directory is a function from     *)
(* file names (texts) to file contents.                                    *)
(***************************************************************************)
EXTENDS Integers, Sequences, FiniteSets, TLC

VARIABLES
    rows,           \* workbook.active.rows: sequence of rows, a row is a sequence of cell values
    template,       \* the template document on disk: sequence of paragraphs, a paragraph is a sequence of runs
    template_ctrl,  \* what the path typed in template_ctrl is on disk: "file", "dir" or "missing"
    excel_ctrl,     \* the same for excel_ctrl
    output_ctrl,    \* the same for output_ctrl
    btnEnabled,     \* generate_btn is enabled
    lastBox,        \* caption of the last wx.MessageBox shown, "" when none was
    log,            \* the lines received by log_callback / appended to log_ctrl
    log_callback,   \* process_certificates was given a log_callback
    pc,             \* "idle", "loop" (inside process_certificates), "returned", "raised"
    row_index,      \* enumerate() index of the row the loop is at (0-based)
    count,          \* process_certificates' count
    result,         \* the value process_certificates returned, -1 before it returns
    exc,            \* the exception process_certificates raised, "" when none
    files,          \* the output directory: file name -> content
    dir0,           \* the output directory as it was when process_certificates was called
    san_in,         \* argument of a bare sanitize_certificate_id call
    san_out         \* its result

vars == <<rows, template, template_ctrl, excel_ctrl, output_ctrl, btnEnabled, lastBox,
          log, log_callback, pc, row_index, count, result, exc, files, dir0,
          san_in, san_out>>

paths == <<template_ctrl, excel_ctrl, output_ctrl>>
frame == <<template_ctrl, excel_ctrl, output_ctrl, btnEnabled, lastBox>>
sheet == <<rows, template>>
san == <<san_in, san_out>>

----------------------------------------------------------------------------
(* Bounds of the model *)

MaxRows == 3        \* rows of the spreadsheet, header included
MaxLen == 4         \* length of the texts given to a bare sanitize call
MaxBatches == 2     \* on_generate runs that pass validation, per session

(* Program constants *)

NAME_PARAGRAPH_INDEX == 0
NAME_RUN_INDEX == 0
FONT_SIZE_PT == 16
HEADER_ROW_INDEX == 0
ID_COLUMN_INDEX == 0
NAME_COLUMN_INDEX == 1

FONT_NAME == <<"C", "a", "l", "i", "b", "r", "i">>

----------------------------------------------------------------------------
(* Cell values and Python's str(), truth value and `or` *)

None == [t |-> "none", v |-> 0]
IntV(n) == [t |-> "int", v |-> n]
StrV(s) == [t |-> "str", v |-> s]

Digit(d) == <<"0", "1", "2", "3", "4", "5", "6", "7", "8", "9">>[d + 1]

RECURSIVE Decimal(_)
Decimal(n) == IF n < 10 THEN <<Digit(n)>> ELSE Decimal(n \div 10) \o <<Digit(n % 10)>>

\* str(value)
Str(val) ==
    CASE val.t = "none" -> <<"N", "o", "n", "e">>
      [] val.t = "int" -> IF val.v < 0 THEN <<"-">> \o Decimal(-val.v) ELSE Decimal(val.v)
      [] val.t = "str" -> val.v

\* bool(value)
Truthy(val) ==
    CASE val.t = "none" -> FALSE
      [] val.t = "int" -> val.v /= 0
      [] val.t = "str" -> Len(val.v) > 0

\* a or b
Or(a, b) == IF Truthy(a) THEN a ELSE b

----------------------------------------------------------------------------
(* str.replace(old, ""), str.strip(), str.title() *)

IsSpace(c) == c \in {" ", "\t", "\n", "\r"}

\* s.replace(c, "") for a one-character c
RemoveAll(s, c) == SelectSeq(s, LAMBDA x : x /= c)

RECURSIVE LStrip(_)
LStrip(s) == IF s /= <<>> /\ IsSpace(Head(s)) THEN LStrip(Tail(s)) ELSE s

RECURSIVE RStrip(_)
RStrip(s) ==
    IF s /= <<>> /\ IsSpace(s[Len(s)]) THEN RStrip(SubSeq(s, 1, Len(s) - 1)) ELSE s

\* s.strip()
Strip(s) == RStrip(LStrip(s))

LowerCase == <<"a", "b", "e", "j", "l", "o">>
UpperCase == <<"A", "B", "E", "J", "L", "O">>

IsLower(c) == \E i \in 1..Len(LowerCase) : LowerCase[i] = c
IsUpper(c) == \E i \in 1..Len(UpperCase) : UpperCase[i] = c
IsCased(c) == IsLower(c) \/ IsUpper(c)

ToUpper(c) ==
    IF IsLower(c) THEN UpperCase[CHOOSE i \in 1..Len(LowerCase) : LowerCase[i] = c] ELSE c
ToLower(c) ==
    IF IsUpper(c) THEN LowerCase[CHOOSE i \in 1..Len(UpperCase) : UpperCase[i] = c] ELSE c

\* s.title(): a cased character is upper-cased after an uncased one (or at the
\* start) and lower-cased after a cased one
RECURSIVE TitleFrom(_, _)
TitleFrom(s, prevCased) ==
    IF s = <<>> THEN <<>>
    ELSE <<IF prevCased THEN ToLower(Head(s)) ELSE ToUpper(Head(s))>>
             \o TitleFrom(Tail(s), IsCased(Head(s)))

Title(s) == TitleFrom(s, FALSE)

----------------------------------------------------------------------------
(* sanitize_certificate_id *)

\* a plausible slip: trim first, then drop the '+' characters
SanitizeStripFirst(certificate_id) == RemoveAll(Strip(Str(certificate_id)), "+")

sanitize_certificate_id(certificate_id) == Strip(RemoveAll(Str(certificate_id), "+"))

----------------------------------------------------------------------------
(* The documents and the output directory *)

Run(text) == [text |-> text, font |-> <<>>, size |-> 0]

\* doc.paragraphs[NAME_PARAGRAPH_INDEX].runs[NAME_RUN_INDEX] exists
HasPlaceholder(doc) ==
    /\ Len(doc) > NAME_PARAGRAPH_INDEX
    /\ Len(doc[NAME_PARAGRAPH_INDEX + 1]) > NAME_RUN_INDEX

Placeholder(doc) == doc[NAME_PARAGRAPH_INDEX + 1][NAME_RUN_INDEX + 1]

\* display_name = str(participant_name or "").strip(); the text handed to run.add_text
DisplayText(participant_name) ==
    LET display_name == Strip(Str(Or(participant_name, StrV(<<>>))))
    IN  IF display_name /= <<>> THEN Title(display_name) ELSE <<" ">>

\* the placeholder run after lines 28-32: font set, display text appended
FilledRun(run, participant_name) ==
    [text |-> run.text \o DisplayText(participant_name),
     font |-> FONT_NAME,
     size |-> FONT_SIZE_PT]

\* the document after lines 26-32
FilledDoc(doc, participant_name) ==
    [doc EXCEPT ![NAME_PARAGRAPH_INDEX + 1][NAME_RUN_INDEX + 1] =
                    FilledRun(Placeholder(doc), participant_name)]

DocxExt == <<".", "d", "o", "c", "x">>
PdfExt == <<".", "p", "d", "f">>

\* output_dir / f"{clean_id}.docx" and output_dir / f"{clean_id}.pdf", as names in output_dir
doc_file(clean_id) == clean_id \o DocxExt
pdf_file(clean_id) == clean_id \o PdfExt

\* create or overwrite a file
WriteFile(dir, name, content) ==
    [n \in DOMAIN dir \cup {name} |-> IF n = name THEN content ELSE dir[n]]

\* a save that refuses to replace an existing file
WriteFileIfAbsent(dir, name, content) ==
    IF name \in DOMAIN dir THEN dir ELSE WriteFile(dir, name, content)

\* doc.save(doc_file)
DocSave(dir, name, doc) == WriteFile(dir, name, [kind |-> "docx", body |-> doc])

\* a converter that leaves an existing output file as it is
ConvertKeepExisting(dir, src, dst) ==
    WriteFileIfAbsent(dir, dst, [kind |-> "pdf", body |-> dir[src].body])

\* docx2pdf.convert(str(doc_file), str(pdf_file)): renders the document into the pdf
Convert(dir, src, dst) == WriteFile(dir, dst, [kind |-> "pdf", body |-> dir[src].body])

\* an unlink that is never reached
UnlinkSkipped(dir, name) == dir

\* doc_file.unlink(missing_ok=True)
Unlink(dir, name) == [n \in DOMAIN dir \ {name} |-> dir[n]]

\* The external steps of generate_pdf that can raise, "ok" when none does
IoOutcomes == {"ok", "load", "save", "convert"}

\* the exception generate_pdf raises, "" when it returns
GenerateRaises(doc, io) ==
    CASE io = "load" -> "LoadError"
      [] io /= "load" /\ ~HasPlaceholder(doc) -> "IndexError"
      [] io = "save" /\ HasPlaceholder(doc) -> "SaveError"
      [] io = "convert" /\ HasPlaceholder(doc) -> "ConvertError"
      [] OTHER -> ""

\* lines 25-40 with the output stem given: the output directory afterwards
Render(dir, doc, clean_id, participant_name, io) ==
    LET saved == DocSave(dir, doc_file(clean_id), FilledDoc(doc, participant_name))
    IN  CASE GenerateRaises(doc, io) \in {"LoadError", "IndexError", "SaveError"} -> dir
          [] GenerateRaises(doc, io) = "ConvertError" -> saved
          [] OTHER ->
               Unlink(Convert(saved, doc_file(clean_id), pdf_file(clean_id)),
                      doc_file(clean_id))

\* a plausible slip: the output stem taken from the participant's name
generate_pdf_by_name(dir, doc, certificate_id, participant_name, io) ==
    Render(dir, doc, sanitize_certificate_id(participant_name), participant_name, io)

\* generate_pdf(template_path, output_dir, certificate_id, participant_name)
generate_pdf(dir, doc, certificate_id, participant_name, io) ==
    Render(dir, doc, sanitize_certificate_id(certificate_id), participant_name, io)

----------------------------------------------------------------------------
(* The inputs *)

IdValues ==
    {None, IntV(0), StrV(<<>>), StrV(<<"A">>), StrV(<<"+", "A", " ">>), IntV(10)}

NameValues == {None, StrV(<<"j", "o", " ", "e">>)}

\* what the first row holds: a blank row, or one that reads like a data row
HeaderIdValues == {None, StrV(<<"A">>)}

\* the sheets of n rows: openpyxl gives every row of a sheet the same width, here
\* one column or two
Sheets(n) ==
    {r \in [1..n -> {<<i>> : i \in IdValues}] :
        n > 0 => r[1][1] \in HeaderIdValues}
    \cup
    {r \in [1..n -> {<<i, m>> : i \in IdValues, m \in NameValues}] :
        n > 0 => r[1][1] \in HeaderIdValues}

AllSheets == UNION {Sheets(n) : n \in 0..MaxRows}

\* a first paragraph without a run, and one whose first run holds text
TemplateValues == {<< <<>> >>, << <<Run(<<"T", "o", " ">>)>> >>}

EmptyDir == [n \in {} |-> 0]

PathKinds == {"file", "dir", "missing"}

----------------------------------------------------------------------------
(* The state after construction; Path("") is the current directory *)

InitFrame ==
    /\ template_ctrl = "dir"
    /\ excel_ctrl = "dir"
    /\ output_ctrl = "dir"
    /\ btnEnabled = TRUE
    /\ lastBox = ""
    /\ log = <<>>

InitCall ==
    /\ log_callback = FALSE
    /\ pc = "idle"
    /\ row_index = 0
    /\ count = 0
    /\ result = -1
    /\ exc = ""
    /\ files = EmptyDir
    /\ dir0 = EmptyDir

InitSan ==
    /\ san_in = None
    /\ san_out = <<>>

Init ==
    /\ rows \in AllSheets
    /\ template \in TemplateValues
    /\ InitFrame
    /\ InitCall
    /\ InitSan

----------------------------------------------------------------------------
(* process_certificates *)

\* f"Processing: {certificate_id} -> {participant_name}"
ProcessingLine(certificate_id, participant_name) ==
    <<"Processing: ">> \o Str(certificate_id) \o <<" -> ">> \o Str(participant_name)

IsProcessingLine(line) == line /= <<>> /\ Head(line) = "Processing: "

\* lines 44-45: openpyxl.open either raises or the loop is entered with count = 0
EnterProcess(opened) ==
    /\ pc' = IF opened THEN "loop" ELSE "raised"
    /\ exc' = IF opened THEN "" ELSE "OpenError"
    /\ row_index' = 0
    /\ count' = 0
    /\ result' = -1
    /\ dir0' = files
    /\ files' = files

InLoop == pc = "loop" /\ row_index < Len(rows)

CurrentRow == rows[row_index + 1]
certificate_id == CurrentRow[ID_COLUMN_INDEX + 1]
participant_name == CurrentRow[NAME_COLUMN_INDEX + 1]

\* a header test that is never true
IsHeaderNever(i) == FALSE

\* the header test of lines 48-49
IsHeader(i) == i = HEADER_ROW_INDEX

\* a skip test that lets everything but None through
SkipsIdNoneOnly(val) == val = None

\* the skip test of lines 52-53
SkipsId(val) == ~Truthy(val)

NextRow ==
    /\ row_index' = row_index + 1
    /\ UNCHANGED <<pc, count, result, exc, files, dir0, log, log_callback>>

\* lines 48-49
SkipHeader ==
    /\ InLoop
    /\ IsHeader(row_index)
    /\ NextRow
    /\ UNCHANGED <<sheet, frame, san>>

\* lines 51-53
SkipEmptyId ==
    /\ InLoop
    /\ ~IsHeader(row_index)
    /\ SkipsId(certificate_id)
    /\ NextRow
    /\ UNCHANGED <<sheet, frame, san>>

\* line 55 on a sheet of one column: row[NAME_COLUMN_INDEX] raises IndexError
NameCellMissing ==
    /\ InLoop
    /\ ~IsHeader(row_index)
    /\ ~SkipsId(certificate_id)
    /\ Len(CurrentRow) <= NAME_COLUMN_INDEX
    /\ pc' = "raised"
    /\ exc' = "IndexError"
    /\ UNCHANGED <<row_index, count, result, files, dir0, log, log_callback>>
    /\ UNCHANGED <<sheet, frame, san>>

\* a loop that carries on after generate_pdf raised
ProcessRowSwallow ==
    /\ InLoop
    /\ ~IsHeader(row_index)
    /\ ~SkipsId(certificate_id)
    /\ Len(CurrentRow) > NAME_COLUMN_INDEX
    /\ \E io \in IoOutcomes :
         /\ log' = IF log_callback
                   THEN Append(log, ProcessingLine(certificate_id, participant_name))
                   ELSE log
         /\ files' = generate_pdf(files, template, certificate_id, participant_name, io)
         /\ count' = IF GenerateRaises(template, io) = "" THEN count + 1 ELSE count
         /\ row_index' = row_index + 1
         /\ UNCHANGED <<pc, exc>>
    /\ UNCHANGED <<result, dir0, log_callback>>
    /\ UNCHANGED <<sheet, frame, san>>

\* lines 55-60: the callback, generate_pdf, count += 1; an exception leaves the loop
ProcessRow ==
    /\ InLoop
    /\ ~IsHeader(row_index)
    /\ ~SkipsId(certificate_id)
    /\ Len(CurrentRow) > NAME_COLUMN_INDEX
    /\ \E io \in IoOutcomes :
         /\ log' = IF log_callback
                   THEN Append(log, ProcessingLine(certificate_id, participant_name))
                   ELSE log
         /\ files' = generate_pdf(files, template, certificate_id, participant_name, io)
         /\ IF GenerateRaises(template, io) = ""
            THEN /\ count' = count + 1
                 /\ row_index' = row_index + 1
                 /\ UNCHANGED <<pc, exc>>
            ELSE /\ pc' = "raised"
                 /\ exc' = GenerateRaises(template, io)
                 /\ UNCHANGED <<count, row_index>>
    /\ UNCHANGED <<result, dir0, log_callback>>
    /\ UNCHANGED <<sheet, frame, san>>

\* a return of the loop index in place of the count
ReturnRowIndex ==
    /\ pc = "loop"
    /\ row_index >= Len(rows)
    /\ pc' = "returned"
    /\ result' = row_index
    /\ UNCHANGED <<row_index, count, exc, files, dir0, log, log_callback>>
    /\ UNCHANGED <<sheet, frame, san>>

\* line 62, once the rows are exhausted
ReturnCount ==
    /\ pc = "loop"
    /\ row_index >= Len(rows)
    /\ pc' = "returned"
    /\ result' = count
    /\ UNCHANGED <<row_index, count, exc, files, dir0, log, log_callback>>
    /\ UNCHANGED <<sheet, frame, san>>

LoopStep == SkipHeader \/ SkipEmptyId \/ NameCellMissing \/ ProcessRow \/ ReturnCount

\* a caller other than the frame calls process_certificates, with or without a
\* callback; the callback collects the lines of this call
CallProcess ==
    /\ pc \in {"idle", "returned", "raised"}
    /\ \E cb \in BOOLEAN, opened \in BOOLEAN :
         /\ log_callback' = cb
         /\ EnterProcess(opened)
    /\ log' = <<>>
    /\ UNCHANGED <<sheet, frame, san>>

Next == CallProcess \/ LoopStep

Spec == Init /\ [][Next]_vars

----------------------------------------------------------------------------
(* CertificateFrame *)

\* the handlers run on the GUI thread one at a time: an event is dispatched only
\* when no handler is running
Dispatching == pc = "idle"

\* FD_FILE_MUST_EXIST: the dialog returns an existing file
on_browse_template ==
    /\ Dispatching
    /\ template_ctrl' = "file"
    /\ UNCHANGED <<excel_ctrl, output_ctrl, btnEnabled, lastBox>>
    /\ UNCHANGED <<sheet, san, log, log_callback, pc, row_index, count, result, exc, files, dir0>>

on_browse_excel ==
    /\ Dispatching
    /\ excel_ctrl' = "file"
    /\ UNCHANGED <<template_ctrl, output_ctrl, btnEnabled, lastBox>>
    /\ UNCHANGED <<sheet, san, log, log_callback, pc, row_index, count, result, exc, files, dir0>>

\* DD_DIR_MUST_EXIST: the dialog returns an existing directory
on_browse_output ==
    /\ Dispatching
    /\ output_ctrl' = "dir"
    /\ UNCHANGED <<template_ctrl, excel_ctrl, btnEnabled, lastBox>>
    /\ UNCHANGED <<sheet, san, log, log_callback, pc, row_index, count, result, exc, files, dir0>>

\* the user types a path into one of the three wx.TextCtrl
TypePath ==
    /\ Dispatching
    /\ \E k \in PathKinds :
         \/ template_ctrl' = k /\ UNCHANGED <<excel_ctrl, output_ctrl>>
         \/ excel_ctrl' = k /\ UNCHANGED <<template_ctrl, output_ctrl>>
         \/ output_ctrl' = k /\ UNCHANGED <<template_ctrl, excel_ctrl>>
    /\ UNCHANGED <<btnEnabled, lastBox>>
    /\ UNCHANGED <<sheet, san, log, log_callback, pc, row_index, count, result, exc, files, dir0>>

\* a validation that forgets the output folder
PathsValidNoOutputCheck == template_ctrl = "file" /\ excel_ctrl = "file"

\* lines 123-131 let the handler through
PathsValid == template_ctrl = "file" /\ excel_ctrl = "file" /\ output_ctrl = "dir"

StartLine == <<"Starting generation...">>
CompletedLine(total) == <<"Completed. Generated ">> \o Decimal(total) \o <<" certificates.">>
ErrorLine(e) == <<"Error: ", e>>

\* the batches started so far in this session
Batches == Len(SelectSeq(log, LAMBDA line : line = StartLine))

\* lines 119-131 when a check fails: the warning box, then return
on_generate_invalid ==
    /\ Dispatching
    /\ btnEnabled
    /\ ~PathsValid
    /\ lastBox' = "Validation"
    /\ UNCHANGED <<paths, btnEnabled>>
    /\ UNCHANGED <<sheet, san, log, log_callback, pc, row_index, count, result, exc, files, dir0>>

\* a handler that leaves the button as it is
on_generate_start_no_disable ==
    /\ Dispatching
    /\ btnEnabled
    /\ PathsValid
    /\ Batches < MaxBatches
    /\ log' = Append(log, StartLine)
    /\ log_callback' = TRUE
    /\ \E opened \in BOOLEAN : EnterProcess(opened)
    /\ UNCHANGED <<paths, btnEnabled, lastBox>>
    /\ UNCHANGED <<sheet, san>>

\* lines 119-137: the checks pass, Disable(), the first log line, the call
on_generate_start ==
    /\ Dispatching
    /\ btnEnabled
    /\ PathsValid
    /\ Batches < MaxBatches
    /\ btnEnabled' = FALSE
    /\ log' = Append(log, StartLine)
    /\ log_callback' = TRUE
    /\ \E opened \in BOOLEAN : EnterProcess(opened)
    /\ UNCHANGED <<paths, lastBox>>
    /\ UNCHANGED <<sheet, san>>

\* lines 138-139 and the finally block
on_generate_done ==
    /\ pc = "returned"
    /\ log' = Append(log, CompletedLine(result))
    /\ lastBox' = "Success"
    /\ btnEnabled' = TRUE
    /\ pc' = "idle"
    /\ UNCHANGED <<paths, sheet, san, log_callback, row_index, count, result, exc, files, dir0>>

\* an except block without the finally: the button stays disabled
on_generate_except_no_finally ==
    /\ pc = "raised"
    /\ log' = Append(log, ErrorLine(exc))
    /\ lastBox' = "Error"
    /\ pc' = "idle"
    /\ UNCHANGED <<paths, btnEnabled>>
    /\ UNCHANGED <<sheet, san, log_callback, row_index, count, result, exc, files, dir0>>

\* lines 140-144: the except block, then the finally block
on_generate_except ==
    /\ pc = "raised"
    /\ log' = Append(log, ErrorLine(exc))
    /\ lastBox' = "Error"
    /\ btnEnabled' = TRUE
    /\ pc' = "idle"
    /\ UNCHANGED <<paths, sheet, san, log_callback, row_index, count, result, exc, files, dir0>>

\* the spreadsheets of the GUI runs: a blank header row, then one or two rows with
\* or without an identifier; two columns with a name in each data row, or one column
GuiSheets ==
    {r \in Sheets(2) \cup Sheets(3) :
        /\ \A c \in 1..Len(r[1]) : r[1][c] = None
        /\ \A k \in 2..Len(r) :
             /\ r[k][1] \in {None, StrV(<<"A">>)}
             /\ Len(r[k]) > 1 => r[k][2] /= None}

GuiInit ==
    /\ rows \in GuiSheets
    /\ template \in TemplateValues
    /\ InitFrame
    /\ InitCall
    /\ InitSan

\* what a handler that has started does next
HandlerStep == LoopStep \/ on_generate_done \/ on_generate_except

GuiNext ==
    \/ on_browse_template
    \/ on_browse_excel
    \/ on_browse_output
    \/ TypePath
    \/ on_generate_invalid
    \/ on_generate_start
    \/ HandlerStep

GuiSpec == GuiInit /\ [][GuiNext]_vars

\* the handler is straight-line Python on one thread: once started it runs on
GuiFairSpec == GuiSpec /\ WF_vars(HandlerStep)

----------------------------------------------------------------------------
(* sanitize_certificate_id called on its own *)

SanChars == {"+", " ", "A", "1"}

Texts(n) == UNION {[1..k -> SanChars] : k \in 0..n}

SanInputs ==
    {None, IntV(0), IntV(10), StrV(<<" ", "+", " ", "A", " ", "+", " ">>)}
        \cup {StrV(s) : s \in Texts(MaxLen)}

SanInit ==
    /\ rows = <<>>
    /\ template \in TemplateValues
    /\ InitFrame
    /\ InitCall
    /\ san_in \in SanInputs
    /\ san_out = <<"?">>

SanCall ==
    /\ san_out = <<"?">>
    /\ san_out' = sanitize_certificate_id(san_in)
    /\ UNCHANGED <<san_in, sheet, frame, log, log_callback, pc, row_index, count, result, exc, files, dir0>>

SanNext == SanCall

SanSpec == SanInit /\ [][SanNext]_vars

----------------------------------------------------------------------------
(* What the claims speak about *)

\* the values the skip rule names: None, the empty text, numeric zero
FalsyIds == {None, IntV(0), StrV(<<>>)}

\* the data rows (1-based positions in rows) whose identifier is not one of these
QualifyingRows == {i \in 2..Len(rows) : rows[i][1] \notin FalsyIds}

StemOfRow(i) == Strip(RemoveAll(Str(rows[i][1]), "+"))
PdfOfRow(i) == StemOfRow(i) \o <<".", "p", "d", "f">>
DocxOfRow(i) == StemOfRow(i) \o <<".", "d", "o", "c", "x">>

PdfNames(dir) == {n \in DOMAIN dir : dir[n].kind = "pdf"}
DocxNames(dir) == {n \in DOMAIN dir : dir[n].kind = "docx"}

ProcessingLines(lg) == SelectSeq(lg, IsProcessingLine)

\* the row the loop is at is a data row with one of the falsy identifiers
AtFalsyRow ==
    /\ pc = "loop"
    /\ row_index >= 1
    /\ row_index < Len(rows)
    /\ rows[row_index + 1][1] \in FalsyIds

AtHeaderRow == pc = "loop" /\ row_index = 0 /\ Len(rows) > 0

\* nothing a processed row would do has happened in this step
RowLeftNoTrace ==
    /\ log' = log
    /\ files' = files
    /\ count' = count
    /\ exc' = exc
    /\ pc' = "loop"
    /\ row_index' = row_index + 1

----------------------------------------------------------------------------
(* C1 *)

\* C1 as stated: when process_certificates returns from a call that found the
\* output directory empty and every data row has a non-empty identifier, it returns
\* the number N of data rows and exactly N .pdf files exist.
C1_CountEqualsFiles ==
    (pc = "returned" /\ dir0 = EmptyDir /\ QualifyingRows = 2..Len(rows))
        => /\ result = Cardinality(2..Len(rows))
           /\ Cardinality(PdfNames(files)) = Cardinality(2..Len(rows))

\* C1 amended: under the same conditions it returns N, and the .pdf files are as
\* many as the distinct sanitized identifiers of the rows; exactly N when the
\* sanitized identifiers are pairwise distinct.
C1_CountAndDistinctStems ==
    (pc = "returned" /\ dir0 = EmptyDir /\ QualifyingRows = 2..Len(rows))
        => /\ result = Cardinality(2..Len(rows))
           /\ Cardinality(PdfNames(files))
                = Cardinality({StemOfRow(i) : i \in 2..Len(rows)})
           /\ (\A i, j \in 2..Len(rows) : StemOfRow(i) = StemOfRow(j) => i = j)
                => Cardinality(PdfNames(files)) = Cardinality(2..Len(rows))

\* two data rows with different stems, both rendered into an empty directory
C1_Witness ==
    /\ pc = "returned"
    /\ dir0 = EmptyDir
    /\ Len(rows) = 3
    /\ QualifyingRows = {2, 3}
    /\ StemOfRow(2) /= StemOfRow(3)
    /\ result = 2
    /\ Cardinality(PdfNames(files)) = 2

----------------------------------------------------------------------------
(* C2 *)

\* C2: a data row whose identifier is None, the empty text or 0 is skipped whatever
\* its name cell holds: the step that handles it calls no callback, writes no file,
\* leaves the count, raises nothing and moves on to the next row.
C2_FalsyRowSkipped == [][AtFalsyRow => RowLeftNoTrace]_vars

\* a call with a callback that skipped a falsy row with a name and then rendered
\* the next row
C2_Witness ==
    /\ pc = "returned"
    /\ log_callback
    /\ Len(rows) = 3
    /\ rows[2][1] = IntV(0)
    /\ Len(rows[2]) = 2
    /\ rows[2][2] /= None
    /\ rows[3][1] \notin FalsyIds
    /\ result = 1
    /\ Len(log) = 1

----------------------------------------------------------------------------
(* C3 *)

\* C3: the first row is never processed, whatever it holds: the step that handles
\* it calls no callback, writes no file and leaves the count; a sheet with only a
\* header row yields count 0, no file and no callback.
C3_HeaderSkipped ==
    /\ [][AtHeaderRow => RowLeftNoTrace]_vars
    /\ []((pc = "returned" /\ Len(rows) <= 1)
            => (result = 0 /\ files = dir0 /\ ProcessingLines(log) = <<>>))

\* a sheet of one row that reads like a data row, and the call returned 0
C3_Witness ==
    /\ pc = "returned"
    /\ log_callback
    /\ Len(rows) = 1
    /\ Len(rows[1]) = 2
    /\ rows[1][1] \notin FalsyIds
    /\ result = 0
    /\ files = EmptyDir

----------------------------------------------------------------------------
(* C4 *)

NoPlus(s) == \A i \in 1..Len(s) : s[i] /= "+"
Trimmed(s) == s = <<>> \/ (~IsSpace(s[1]) /\ ~IsSpace(s[Len(s)]))
AllSpace(s) == \A i \in 1..Len(s) : IsSpace(s[i])

\* s without its '+' characters, by position
WithoutPlus(s) ==
    LET keep == {i \in 1..Len(s) : s[i] /= "+"}
        nth[k \in 0..Len(s)] ==
            IF k = 0 THEN 0 ELSE CHOOSE i \in keep : i > nth[k - 1] /\ \A j \in keep : j > nth[k - 1] => i <= j
    IN  [k \in 1..Cardinality(keep) |-> s[nth[k]]]

\* C4: the result of sanitize_certificate_id has no '+', has no leading or trailing
\* whitespace, and is the text form of the value without its '+' characters, less
\* a prefix and a suffix that are all whitespace; "A+1 " gives "A1" and " + A + "
\* gives "A".
C4_Sanitized ==
    san_out /= <<"?">> =>
        /\ NoPlus(san_out)
        /\ Trimmed(san_out)
        /\ \E a, b \in 0..Len(Str(san_in)) :
             LET t == WithoutPlus(Str(san_in))
             IN  /\ a + b + Len(san_out) = Len(t)
                 /\ AllSpace(SubSeq(t, 1, a))
                 /\ AllSpace(SubSeq(t, Len(t) - b + 1, Len(t)))
                 /\ san_out = SubSeq(t, a + 1, Len(t) - b)
        /\ san_in = StrV(<<"A", "+", "1", " ">>) => san_out = <<"A", "1">>
        /\ san_in = StrV(<<" ", "+", " ", "A", " ", "+", " ">>) => san_out = <<"A">>

\* the call on " + A + " has returned
C4_Witness ==
    /\ san_in = StrV(<<" ", "+", " ", "A", " ", "+", " ">>)
    /\ san_out = <<"A">>

----------------------------------------------------------------------------
(* C5 *)

\* the step rendered a row: the count went up
RenderedRow == pc = "loop" /\ count' = count + 1

\* C5: a step that renders a row leaves exactly one artifact, the .pdf named by the
\* sanitized identifier of that row: it is there afterwards, the intermediate
\* .docx of that stem is not, and every other file is as before.  When the call
\* returns, the count and the names of the .pdf files are what the identifiers
\* (and the directory found at the call) determine, whatever the names are.
C5_NamedByIdentifierOnly ==
    /\ [][RenderedRow =>
            LET pdf == PdfOfRow(row_index + 1)
                docx == DocxOfRow(row_index + 1)
            IN  /\ DOMAIN files' = (DOMAIN files \cup {pdf}) \ {docx}
                /\ files'[pdf].kind = "pdf"
                /\ \A n \in DOMAIN files' \ {pdf} : files'[n] = files[n]]_vars
    /\ [](pc = "returned" =>
            /\ result = Cardinality(QualifyingRows)
            /\ PdfNames(files) = PdfNames(dir0) \cup {PdfOfRow(i) : i \in QualifyingRows})

\* a returned call that rendered a row with a name whose sanitized text is not the
\* row's stem, next to a row with the same identifier and no name
C5_Witness ==
    /\ pc = "returned"
    /\ dir0 = EmptyDir
    /\ Len(rows) = 3
    /\ QualifyingRows = {2, 3}
    /\ rows[2][1] = rows[3][1]
    /\ rows[2][2] /= None
    /\ rows[3][2] = None
    /\ Strip(RemoveAll(Str(rows[2][2]), "+")) /= StemOfRow(2)
    /\ PdfNames(files) = {PdfOfRow(2)}
    /\ result = 2

----------------------------------------------------------------------------
(* C6 *)

\* the file is in both directories with the same content
SameFile(n, d1, d2) == n \in DOMAIN d1 /\ n \in DOMAIN d2 /\ d1[n] = d2[n]

\* process_certificates is entered anew
FreshCall == row_index' = 0 /\ count' = 0 /\ dir0' = files /\ files' = files

\* the loop is at a data row whose identifier is not falsy
AtQualifyingRow ==
    /\ pc = "loop"
    /\ row_index >= 1
    /\ row_index < Len(rows)
    /\ rows[row_index + 1][1] \notin FalsyIds

\* C6: the step that handles a qualifying row either renders it and counts it, or
\* ends the loop with the exception at that row, the count and the .pdf files
\* being as before it; once the exception is out, no row is handled (no callback,
\* no file, no count, no move to another row) until process_certificates is
\* called again.
C6_FailureAborts ==
    /\ [][(AtQualifyingRow /\ count' /= count + 1)
            => /\ pc' = "raised"
               /\ exc' /= ""
               /\ count' = count
               /\ row_index' = row_index
               /\ PdfNames(files') = PdfNames(files)
               /\ \A n \in PdfNames(files) : SameFile(n, files, files')]_vars
    /\ [][pc = "raised"
            => \/ FreshCall
               \/ /\ log' = log
                  /\ files' = files
                  /\ count' = count
                  /\ row_index' = row_index]_vars

\* the second data row failed at conversion after the first was rendered: its
\* intermediate file is left, the first row's .pdf is there, nothing was returned
C6_Witness ==
    /\ pc = "raised"
    /\ exc = "ConvertError"
    /\ dir0 = EmptyDir
    /\ Len(rows) = 3
    /\ QualifyingRows = {2, 3}
    /\ row_index = 2
    /\ count = 1
    /\ result = -1
    /\ StemOfRow(2) /= StemOfRow(3)
    /\ PdfNames(files) = {PdfOfRow(2)}
    /\ DocxNames(files) = {DocxOfRow(3)}

----------------------------------------------------------------------------
(* C9 *)

\* C9: a call that returns, whatever earlier calls on the same inputs left in the
\* directory, returns the count of a clean run, leaves the .pdf names of a clean
\* run and leaves no intermediate .docx for any row it rendered.
C9_RerunAsClean ==
    pc = "returned" =>
        /\ result = Cardinality(QualifyingRows)
        /\ PdfNames(files) = {PdfOfRow(i) : i \in QualifyingRows}
        /\ \A i \in QualifyingRows : DocxOfRow(i) \notin DOMAIN files

\* a call that found a .pdf and an intermediate .docx of an earlier call, and
\* returned with that .docx gone
C9_Witness ==
    /\ pc = "returned"
    /\ result >= 1
    /\ PdfNames(dir0) /= {}
    /\ \E n \in DocxNames(dir0) : n \notin DOMAIN files

----------------------------------------------------------------------------
(* C10 *)

\* the last qualifying row with the stem of row i
LastWithStem(i) ==
    CHOOSE j \in QualifyingRows :
        /\ StemOfRow(j) = StemOfRow(i)
        /\ \A k \in QualifyingRows : StemOfRow(k) = StemOfRow(i) => k <= j

\* the text of the placeholder run in the .pdf rendered from row j
RenderedText(j) == Placeholder(template).text \o DisplayText(rows[j][2])

\* C10: when the call returns, every qualifying row is counted, also rows that
\* share a stem, and the .pdf of a stem is the one rendered from the last row
\* with that stem.
C10_LaterRowWins ==
    pc = "returned" =>
        /\ result = Cardinality(QualifyingRows)
        /\ \A i \in QualifyingRows :
             /\ PdfOfRow(i) \in PdfNames(files)
             /\ Placeholder(files[PdfOfRow(i)].body).text = RenderedText(LastWithStem(i))

\* two rows with one stem and different names: both counted, one file, the later
\* row's text in it
C10_Witness ==
    /\ pc = "returned"
    /\ dir0 = EmptyDir
    /\ Len(rows) = 3
    /\ QualifyingRows = {2, 3}
    /\ rows[2][1] /= rows[3][1]
    /\ StemOfRow(2) = StemOfRow(3)
    /\ RenderedText(2) /= RenderedText(3)
    /\ result = 2
    /\ PdfNames(files) = {PdfOfRow(3)}
    /\ Placeholder(files[PdfOfRow(3)].body).text = RenderedText(3)

----------------------------------------------------------------------------
(* C7 *)

\* C7: while a batch runs (from Disable() to the end of the handler) the button
\* is disabled and no second batch starts; and whenever the button is disabled it
\* is enabled again later, whether the batch returns or raises.
C7_ButtonDisabledThenEnabled ==
    /\ [](pc /= "idle" => ~btnEnabled)
    /\ [][pc /= "idle" => Batches' = Batches]_vars
    /\ (~btnEnabled) ~> (btnEnabled /\ pc = "idle")

\* a batch that raised has ended and the button is enabled again
C7_Witness ==
    /\ pc = "idle"
    /\ btnEnabled
    /\ lastBox = "Error"
    /\ Batches = 1
    /\ exc = "ConvertError"

----------------------------------------------------------------------------
(* C8 *)

\* one of the three checks of on_generate fails on the paths as typed
SomePathInvalid == template_ctrl /= "file" \/ excel_ctrl /= "file" \/ output_ctrl /= "dir"

\* C8: with the handler not running and one of the three paths invalid, no step
\* starts a batch: process_certificates is not entered, the directory and the log
\* are as before, the button is and stays enabled, and the only box shown is the
\* validation warning.
C8_InvalidPathsBlock ==
    [][(pc = "idle" /\ SomePathInvalid)
         => /\ pc' = "idle"
            /\ files' = files
            /\ dir0' = dir0
            /\ log' = log
            /\ btnEnabled
            /\ btnEnabled'
            /\ lastBox' /= lastBox => lastBox' = "Validation"]_vars

\* after a batch that wrote files and log lines, a click with only the output
\* path invalid showed the warning
C8_Witness ==
    /\ pc = "idle"
    /\ template_ctrl = "file"
    /\ excel_ctrl = "file"
    /\ output_ctrl = "file"
    /\ lastBox = "Validation"
    /\ btnEnabled
    /\ Batches = 1
    /\ PdfNames(files) /= {}

====
